---- MODULE Spec2Model ----
(***************************************************************************)
(* A model of package jsonapi (src/jsonapi.go): the link validator         *)
(* (checkMeta, checkLinkValue, Link.check), the document codec             *)
(* (document.MarshalJSON, tryUnmarshalEmpty, UnmarshalJSON) and the        *)
(* compound-document linkage verifier (document.verifyFullLinkage).        *)
(*                                                                         *)
(* Go values are tagged records [k |-> kind, ...]; a nil pointer, nil      *)
(* slice, nil map or nil interface is Nil.  Resource objects that          *)
(* verifyFullLinkage can write through a pointer live in a heap            *)
(* (address -> resourceObject); maps and documents are never written by    *)
(* it and are held by value, the pointers inside them kept as addresses,   *)
(* so that copying a resourceObject record is Go's shallow struct copy.    *)
(***************************************************************************)
EXTENDS Integers, Sequences, FiniteSets, TLC

VARIABLES
    \* ---- document.verifyFullLinkage
    d,                  \* the document: hasMany, DataOne, DataMany, Included (addresses)
    heap,               \* address -> resourceObject
    aliasRelationships, \* the argument of verifyFullLinkage
    pc,                 \* "start", "visit" (traversal running), "done" (returned or panicked)
    includeGraph,       \* identifier -> includeNode
    stack,              \* the pending calls of visit, innermost first
    result,             \* the returned error, or the panic, once pc = "done"
    visits,             \* number of calls of visit so far
    reached,            \* the addresses visit was called on
    expansions,         \* the identifiers whose adjacent nodes visit went on to, in order
    heap0,              \* the heap when verifyFullLinkage was called
    \* ---- Link.check
    link,               \* the Link: Self, Related, First, Last, Next, Previous
    linkPc,             \* "built", "checked" (check returned), "encoded"
    linkErr,            \* what check returned
    linkWire,           \* the JSON encoding of the checked Link
    link0,              \* the Link when check was called
    \* ---- document.MarshalJSON, document.UnmarshalJSON
    document,           \* the document the codec works on
    role,               \* "built" (by the caller, to encode), "target" (a new document
                        \* to decode into), "reused" (a filled document to decode into)
    wire,               \* what MarshalJSON returned, when it has been called
    src,                \* the document wire was encoded from
    payload,            \* the JSON value last given to UnmarshalJSON
    err,                \* what the last UnmarshalJSON returned
    decodes,            \* number of UnmarshalJSON calls on doc
    allOk               \* every UnmarshalJSON call on doc so far returned nil

linkageVars == <<d, heap, aliasRelationships, pc, includeGraph, stack, result,
                 visits, reached, expansions, heap0>>

linkVars == <<link, linkPc, linkErr, linkWire, link0>>

codecVars == <<document, role, wire, src, payload, err, decodes, allOk>>

vars == <<linkageVars, linkVars, codecVars>>

----------------------------------------------------------------------------
(* Generic helpers *)

Nil == [k |-> "nil"]

Range(s) == {s[i] : i \in DOMAIN s}

RECURSIVE Flatten(_)
Flatten(ss) == IF ss = <<>> THEN <<>> ELSE Head(ss) \o Flatten(Tail(ss))

\* every enumeration of the set S without repetition: the orders in which a
\* Go "range" over a map with key set S may deliver the keys
Perms(S) ==
    {s \in [1..Cardinality(S) -> S] :
        \A i, j \in 1..Cardinality(S) : i # j => s[i] # s[j]}

RECURSIVE SumOver(_, _)
SumOver(f, S) ==
    IF S = {} THEN 0
    ELSE LET x == CHOOSE y \in S : TRUE IN f[x] + SumOver(f, S \ {x})

----------------------------------------------------------------------------
(* Go values held in an interface (any), and JSON values.  Encoding and     *)
(* decoding convert between the two.                                        *)

String(s) == [k |-> "string", v |-> s]
IntValue(n) == [k |-> "int", v |-> n]
Float64(n) == [k |-> "float64", v |-> n]
Map(f) == [k |-> "map", v |-> f]          \* map[string]any, or a nil map: Nil
\* the elements s past their last non-nil one dropped
RECURSIVE Trimmed(_)
Trimmed(s) ==
    IF s = <<>> \/ s[Len(s)] # Nil THEN s ELSE Trimmed(SubSeq(s, 1, Len(s) - 1))

\* a non-nil slice (the nil slice is Nil) with the elements s and, past its
\* length, the elements rest of its backing array up to the last non-nil one
\* (what capacity there is past them holds nil)
SliceOver(s, rest) == [k |-> "slice", v |-> s, spare |-> Trimmed(rest)]

\* a slice with nothing but nil past its length
Slice(s) == SliceOver(s, <<>>)
\* a value of the struct type named type, with the exported fields ms, a
\* sequence of <<JSON key, value>> in the order of their declaration
Struct(type, ms) == [k |-> "struct", type |-> type, ms |-> ms]
Pointer(x) == [k |-> "pointer", to |-> x]
LinkObject(href, meta) == [k |-> "*LinkObject", Href |-> href, Meta |-> meta]

\* the index of the last member of ms with the key n
LastIndex(ms, n) ==
    CHOOSE i \in DOMAIN ms : ms[i][1] = n /\ \A h \in DOMAIN ms : ms[h][1] = n => h <= i

\* JSON values.  An object is the sequence ms of its members <<key, value>>
\* in the order of the text; v gives, for each key, the value of the last
\* member with that key.
JNull == [k |-> "jnull"]
JString(s) == [k |-> "jstring", v |-> s]
JNumber(n) == [k |-> "jnumber", v |-> n]
JArray(s) == [k |-> "jarray", v |-> s]
JObject(ms) ==
    [k |-> "jobject", ms |-> ms,
     v |-> [n \in {ms[i][1] : i \in DOMAIN ms} |-> ms[LastIndex(ms, n)][2]]]

\* len() of a map or slice; 0 for nil
LenOf(x) == IF x = Nil THEN 0
            ELSE IF x.k = "slice" THEN Len(x.v) ELSE Cardinality(DOMAIN x.v)

\* the ASCII characters a string can hold, in the order of their bytes: tab,
\* line feed, form feed and carriage return come before the space
Ascii ==
    "\t\n\f\r !\"#$%&'()*+,-./0123456789:;<=>?@ABCDEFGHIJKLMNOPQRSTUVWXYZ[\\]^_abcdefghijklmnopqrstuvwxyz{|}~"

\* the place of the character c among the bytes: the bytes of a character
\* that is not ASCII are all greater than those of ASCII
ByteOf(c) ==
    IF \E i \in 1..Len(Ascii) : SubSeq(Ascii, i, i) = c
    THEN CHOOSE i \in 1..Len(Ascii) : SubSeq(Ascii, i, i) = c
    ELSE Len(Ascii) + 1

\* a < b for strings, as Go compares them: byte by byte
RECURSIVE StringLess(_, _)
StringLess(a, b) ==
    IF b = "" THEN FALSE
    ELSE IF a = "" THEN TRUE
    ELSE IF Head(a) = Head(b) THEN StringLess(Tail(a), Tail(b))
    ELSE ByteOf(Head(a)) < ByteOf(Head(b))

\* the least string of the non-empty set S
Least(S) == CHOOSE m \in S : \A o \in S : ~StringLess(o, m)

\* the keys S of a map in the order json.Marshal writes them: sorted
RECURSIVE SortedKeys(_)
SortedKeys(S) ==
    IF S = {} THEN <<>> ELSE <<Least(S)>> \o SortedKeys(S \ {Least(S)})

\* a field of a struct as json.Marshal sees it: its key, its encoded value,
\* and whether omitempty drops it
Member(key, value, omit) == [key |-> key, value |-> value, omit |-> omit]

\* json.Marshal of a struct with the fields fs, in the order of declaration
marshalStruct(fs) ==
    JObject([i \in DOMAIN SelectSeq(fs, LAMBDA f : ~f.omit) |->
                <<SelectSeq(fs, LAMBDA f : ~f.omit)[i].key,
                  SelectSeq(fs, LAMBDA f : ~f.omit)[i].value>>])

\* json.Marshal of a value held in an interface
RECURSIVE marshalAny(_)
marshalAny(x) ==
    CASE x = Nil -> JNull
      [] x.k = "string" -> JString(x.v)
      [] x.k \in {"int", "float64"} -> JNumber(x.v)
      [] x.k = "map" ->
            JObject([i \in DOMAIN SortedKeys(DOMAIN x.v) |->
                        <<SortedKeys(DOMAIN x.v)[i],
                          marshalAny(x.v[SortedKeys(DOMAIN x.v)[i]])>>])
      [] x.k = "struct" ->
            JObject([i \in DOMAIN x.ms |-> <<x.ms[i][1], marshalAny(x.ms[i][2])>>])
      [] x.k = "slice" -> JArray([i \in DOMAIN x.v |-> marshalAny(x.v[i])])
      [] x.k = "pointer" -> marshalAny(x.to)
      [] x.k = "*LinkObject" ->
            marshalStruct(<<Member("href", JString(x.Href), x.Href = ""),
                            Member("meta", marshalAny(x.Meta), x.Meta = Nil)>>)

\* json.Unmarshal of a JSON value into a nil interface
RECURSIVE unmarshalAny(_)
unmarshalAny(j) ==
    CASE j.k = "jnull" -> Nil
      [] j.k = "jstring" -> String(j.v)
      [] j.k = "jnumber" -> Float64(j.v)
      [] j.k = "jarray" -> Slice([i \in DOMAIN j.v |-> unmarshalAny(j.v[i])])
      [] j.k = "jobject" -> Map([n \in DOMAIN j.v |-> unmarshalAny(j.v[n])])

----------------------------------------------------------------------------
(* checkMeta, checkLinkValue, Link.check *)

TypeError(actual, expected) ==
    [k |-> "TypeError", Actual |-> actual, Expected |-> expected]

ErrMissingLinkFields == [k |-> "ErrMissingLinkFields"]

\* reflect.Type.String / fmt's %T of the values of the model
RECURSIVE TypeString(_)
TypeString(x) ==
    CASE x.k = "string" -> "string"
      [] x.k = "int" -> "int"
      [] x.k = "float64" -> "float64"
      [] x.k = "map" -> "map[string]interface {}"
      [] x.k = "slice" -> "[]interface {}"
      [] x.k = "struct" -> x.type
      [] x.k = "pointer" -> "*" \o TypeString(x.to)
      [] x.k = "*LinkObject" -> "*jsonapi.LinkObject"

\* the value whose type is the type of x with its pointers taken off
RECURSIVE derefType(_)
derefType(x) ==
    CASE x.k = "pointer" -> derefType(x.to)
      [] x.k = "*LinkObject" -> Struct("jsonapi.LinkObject", <<>>)
      [] OTHER -> x

checkMeta(m) ==
    IF m = Nil THEN Nil
    ELSE LET mt == derefType(m)
         IN IF mt.k = "struct" \/ mt.k = "map" THEN Nil
            ELSE TypeError(TypeString(mt), <<"struct", "map">>)

checkLinkValue(linkValue) ==
    CASE linkValue = Nil -> [isEmpty |-> TRUE, err |-> Nil]
      [] linkValue.k = "*LinkObject" ->
            IF checkMeta(linkValue.Meta) # Nil
            THEN [isEmpty |-> FALSE, err |-> checkMeta(linkValue.Meta)]
            ELSE [isEmpty |-> linkValue.Href = "", err |-> Nil]
      [] linkValue.k = "string" -> [isEmpty |-> linkValue.v = "", err |-> Nil]
      [] OTHER -> [isEmpty |-> FALSE,
                   err |-> TypeError(TypeString(linkValue), <<"*LinkObject", "string">>)]

checkKeepsEmpty(l) ==
    LET self == checkLinkValue(l.Self)
        related == checkLinkValue(l.Related)
    IN IF self.err # Nil THEN [link |-> l, err |-> self.err]
       ELSE IF related.err # Nil THEN [link |-> l, err |-> related.err]
       ELSE IF self.isEmpty /\ related.isEmpty
            THEN [link |-> l, err |-> ErrMissingLinkFields]
       ELSE [link |-> l, err |-> Nil]

\* Link.check: the Link as check leaves it, and the error returned
check(l) ==
    LET self == checkLinkValue(l.Self)
        related == checkLinkValue(l.Related)
    IN IF self.err # Nil THEN [link |-> l, err |-> self.err]
       ELSE IF related.err # Nil THEN [link |-> l, err |-> related.err]
       ELSE IF self.isEmpty /\ related.isEmpty
            THEN [link |-> l, err |-> ErrMissingLinkFields]
       ELSE IF self.isEmpty THEN [link |-> [l EXCEPT !.Self = Nil], err |-> Nil]
       ELSE IF related.isEmpty THEN [link |-> [l EXCEPT !.Related = Nil], err |-> Nil]
       ELSE [link |-> l, err |-> Nil]

\* json.Marshal of a Link: every field is omitempty
marshalLink(l) ==
    marshalStruct(<<Member("self", marshalAny(l.Self), l.Self = Nil),
                    Member("related", marshalAny(l.Related), l.Related = Nil),
                    Member("first", JString(l.First), l.First = ""),
                    Member("last", JString(l.Last), l.Last = ""),
                    Member("next", JString(l.Next), l.Next = ""),
                    Member("previous", JString(l.Previous), l.Previous = "")>>)

\* the values a caller may put in Self and Related
LinkValues ==
    { Nil, String(""), String("/a"),
      LinkObject("", Nil), LinkObject("/a", Nil),
      LinkObject("/a", Map("count" :> IntValue(2))),
      LinkObject("", Pointer(Struct("main.Meta", <<<<"count", IntValue(2)>>>>))),
      LinkObject("/a", String("meta")),       \* meta neither struct nor map
      IntValue(5),                            \* neither *LinkObject nor string
      Struct("main.T", <<<<"href", String("/a")>>>>) }

Links ==
    [Self : LinkValues, Related : LinkValues, First : {"", "/first"},
     Last : {""}, Next : {"", "/next"}, Previous : {""}]

LinkIdle ==
    /\ link = Nil /\ linkPc = "idle" /\ linkErr = Nil /\ linkWire = Nil /\ link0 = Nil

LinkInit ==
    /\ link \in Links
    /\ linkPc = "built"
    /\ linkErr = Nil
    /\ linkWire = Nil
    /\ link0 = link

\* l.check()
Check ==
    /\ linkPc = "built"
    /\ link' = check(link).link
    /\ linkErr' = check(link).err
    /\ linkPc' = "checked"
    /\ UNCHANGED <<linkWire, link0>>

\* the checked Link is encoded
MarshalLink ==
    /\ linkPc = "checked"
    /\ linkErr = Nil
    /\ linkWire' = marshalLink(link)
    /\ linkPc' = "encoded"
    /\ UNCHANGED <<link, linkErr, link0>>

----------------------------------------------------------------------------
(* document.MarshalJSON.  A JSON text is modelled by the JSON value it     *)
(* denotes, the members of an object in the order of the text; a pointer   *)
(* to a struct by Nil or the struct.                                       *)

\* json.Marshal of an Error (declared outside src/jsonapi.go)
marshalError(e) == JObject(<<<<"title", JString(e.Title)>>>>)

\* json.Marshal of a jsonAPI
marshalJSONAPI(a) ==
    marshalStruct(<<Member("version", JString(a.Version), FALSE),
                    Member("meta", marshalAny(a.Meta), a.Meta = Nil)>>)

RECURSIVE MarshalJSON(_)
RECURSIVE marshalResourceObject(_)

\* json.Marshal of a *resourceObject
marshalResourcePointer(ro) == IF ro = Nil THEN JNull ELSE marshalResourceObject(ro)

\* json.Marshal of a []*resourceObject: null for the nil slice
marshalResources(ros) ==
    IF ros = Nil THEN JNull
    ELSE JArray([i \in DOMAIN ros.v |-> marshalResourcePointer(ros.v[i])])

\* json.Marshal of the entries of a map[string]*document under the keys
marshalDocuments(rels, keys) ==
    JObject([i \in DOMAIN keys |->
                <<keys[i],
                  IF rels.v[keys[i]] = Nil THEN JNull ELSE MarshalJSON(rels.v[keys[i]])>>])

\* json.Marshal of a map[string]*document
marshalRelationships(rels) ==
    IF rels = Nil THEN JNull ELSE marshalDocuments(rels, SortedKeys(DOMAIN rels.v))

\* json.Marshal of a resourceObject, by its field tags
marshalResourceObject(ro) ==
    marshalStruct(
        <<Member("id", JString(ro.ID), ro.ID = ""),
          Member("type", JString(ro.Type), FALSE),
          Member("attributes", marshalAny(ro.Attributes), LenOf(ro.Attributes) = 0),
          Member("relationships", marshalRelationships(ro.Relationships),
                 LenOf(ro.Relationships) = 0),
          Member("meta", marshalAny(ro.Meta), ro.Meta = Nil),
          Member("links", IF ro.Links = Nil THEN JNull ELSE marshalLink(ro.Links),
                 ro.Links = Nil)>>)

\* the members json.Marshal emits for the fields of the embedded alias
marshalAlias(x) ==
    <<Member("meta", marshalAny(x.Meta), x.Meta = Nil),
      Member("jsonapi", IF x.JSONAPI = Nil THEN JNull ELSE marshalJSONAPI(x.JSONAPI),
             x.JSONAPI = Nil),
      Member("errors",
             IF x.Errors = Nil THEN JNull
             ELSE JArray([i \in DOMAIN x.Errors.v |-> marshalError(x.Errors.v[i])]),
             LenOf(x.Errors) = 0),
      Member("links", IF x.Links = Nil THEN JNull ELSE marshalLink(x.Links),
             x.Links = Nil),
      Member("included", marshalResources(x.Included), LenOf(x.Included) = 0)>>

dataNeverExcluded(x) == FALSE

\* if len(d.Errors) > 0: force exclusion of the Data field
dataExcluded(x) == LenOf(x.Errors) > 0

MarshalJSON(x) ==
    IF dataExcluded(x) THEN marshalStruct(marshalAlias(x))
    ELSE IF x.hasMany
         THEN marshalStruct(<<Member("data", marshalResources(x.DataMany), FALSE)>>
                            \o marshalAlias(x))
         ELSE marshalStruct(<<Member("data", marshalResourcePointer(x.DataOne), FALSE)>>
                            \o marshalAlias(x))

----------------------------------------------------------------------------
(* document.UnmarshalJSON *)

ErrMissingDataField == [k |-> "ErrMissingDataField"]
ErrInvalidDataField == [k |-> "ErrInvalidDataField"]
\* json.UnmarshalTypeError: a JSON value of the wrong type for its Go target
UnmarshalTypeError == [k |-> "UnmarshalTypeError"]

\* the zero document, a "var d document"
ZeroDocument ==
    [hasMany |-> FALSE, DataOne |-> Nil, DataMany |-> Nil, Meta |-> Nil,
     JSONAPI |-> Nil, Errors |-> Nil, Links |-> Nil, Included |-> Nil]

newDocument == [ZeroDocument EXCEPT !.DataMany = Slice(<<>>), !.Errors = Slice(<<>>)]

ZeroResourceObject ==
    [ID |-> "", Type |-> "", Attributes |-> Nil, Relationships |-> Nil,
     Meta |-> Nil, Links |-> Nil]

ZeroLink ==
    [Self |-> Nil, Related |-> Nil, First |-> "", Last |-> "", Next |-> "",
     Previous |-> ""]

\* the Go types json.Unmarshal decodes into
TString == [t |-> "string"]
TAny == [t |-> "any"]
TPointer(s) == [t |-> "pointer", to |-> s]      \* pointer to the struct type s
TSlice(s) == [t |-> "slice", of |-> s]          \* slice of pointers to s
TAttributes == [t |-> "map[string]any"]
TRelationships == [t |-> "map[string]*document"]

\* a field of a struct as json.Unmarshal sees it: its JSON key, its name, its type
Field(tag, name, type) == [tag |-> tag, name |-> name, type |-> type]

\* the fields of the embedded alias of document: hasMany is unexported,
\* DataOne and DataMany are tagged "-"
aliasFields ==
    <<Field("meta", "Meta", TAny),
      Field("jsonapi", "JSONAPI", TPointer("jsonAPI")),
      Field("errors", "Errors", TSlice("Error")),
      Field("links", "Links", TPointer("Link")),
      Field("included", "Included", TSlice("resourceObject"))>>

\* the fields of the struct types, by their tags (those of Error, declared
\* outside src/jsonapi.go, are modelled by a title)
StructFields(s) ==
    CASE s = "resourceObject" ->
            <<Field("id", "ID", TString),
              Field("type", "Type", TString),
              Field("attributes", "Attributes", TAttributes),
              Field("relationships", "Relationships", TRelationships),
              Field("meta", "Meta", TAny),
              Field("links", "Links", TPointer("Link"))>>
      [] s = "Link" ->
            <<Field("self", "Self", TAny),
              Field("related", "Related", TAny),
              Field("first", "First", TString),
              Field("last", "Last", TString),
              Field("next", "Next", TString),
              Field("previous", "Previous", TString)>>
      [] s = "jsonAPI" ->
            <<Field("version", "Version", TString), Field("meta", "Meta", TAny)>>
      [] s = "LinkObject" ->
            <<Field("href", "Href", TString), Field("meta", "Meta", TAny)>>
      [] s = "Error" -> <<Field("title", "Title", TString)>>
      [] s = "auxMany" ->
            <<Field("data", "Data", TSlice("resourceObject"))>> \o aliasFields
      [] s = "auxOne" ->
            <<Field("data", "Data", TPointer("resourceObject"))>> \o aliasFields

\* the zero value of the struct types json.Unmarshal allocates
ZeroOf(s) ==
    CASE s = "resourceObject" -> ZeroResourceObject
      [] s = "Link" -> ZeroLink
      [] s = "jsonAPI" -> [Version |-> "", Meta |-> Nil]
      [] s = "Error" -> [Title |-> ""]

\* the ASCII letters, upper case and lower case
UpperCase == "ABCDEFGHIJKLMNOPQRSTUVWXYZ"
LowerCase == "abcdefghijklmnopqrstuvwxyz"

\* the character c in lower case if it is an ASCII upper-case letter
ToLower(c) ==
    IF \E i \in 1..Len(UpperCase) : SubSeq(UpperCase, i, i) = c
    THEN SubSeq(LowerCase,
                CHOOSE i \in 1..Len(UpperCase) : SubSeq(UpperCase, i, i) = c,
                CHOOSE i \in 1..Len(UpperCase) : SubSeq(UpperCase, i, i) = c)
    ELSE c

\* the key as json.Unmarshal folds it to compare it with a tag: the case of
\* its ASCII letters is dropped
RECURSIVE Fold(_)
Fold(key) == IF key = "" THEN "" ELSE ToLower(Head(key)) \o Fold(Tail(key))

\* the field json.Unmarshal decodes the member key into: the one tagged with
\* the key, else one whose tag is the key but for the case of its letters,
\* else none
FieldFor(fields, key) ==
    IF \E i \in DOMAIN fields : fields[i].tag = key
    THEN fields[CHOOSE i \in DOMAIN fields : fields[i].tag = key]
    ELSE IF \E i \in DOMAIN fields : Fold(fields[i].tag) = Fold(key)
         THEN fields[CHOOSE i \in DOMAIN fields :
                        /\ Fold(fields[i].tag) = Fold(key)
                        /\ \A h \in 1..(i - 1) : Fold(fields[h].tag) # Fold(key)]
         ELSE Nil

\* what json.Unmarshal has done to a value: the value as it is now, the type
\* error it saved (decoding goes on), and the error an UnmarshalJSON returned
\* (decoding has stopped)
Decoded(v, e, a) == [v |-> v, err |-> e, abort |-> a]

\* json.Unmarshal saves the first type error
FirstError(a, b) == IF a # Nil THEN a ELSE b

\* the backing array of the slice old, up to its last non-nil element
Backing(old) == IF old = Nil THEN <<>> ELSE old.v \o old.spare

\* the element i of the slice old that json.Unmarshal decodes into: the one
\* the backing array holds there, within the length or past it, else nil
ElementOf(old, i) == IF i <= Len(Backing(old)) THEN Backing(old)[i] ELSE Nil

\* the struct in acc with the field name as r left it
stored(acc, name, r) ==
    Decoded([acc.v EXCEPT ![name] = r.v], FirstError(acc.err, r.err), r.abort)

\* the elements in acc and the element r
appended(acc, r) == Decoded(Append(acc.v, r.v), FirstError(acc.err, r.err), r.abort)

\* the slice over the backing array all with the length n
resliced(all, n) == SliceOver(SubSeq(all, 1, n), SubSeq(all, n + 1, Len(all)))

\* the slice old after its elements were decoded into acc: set to the length
\* of the array (a new slice for the empty array), its backing array kept;
\* when decoding has stopped, the length is not cut
sliceOf(old, acc) ==
    Decoded(IF acc.v = <<>> THEN Slice(<<>>)
            ELSE resliced(acc.v \o SubSeq(Backing(old), Len(acc.v) + 1,
                                          Len(Backing(old))),
                          IF acc.abort # Nil /\ LenOf(old) > Len(acc.v)
                          THEN LenOf(old) ELSE Len(acc.v)),
            acc.err, acc.abort)

\* the map in acc with the document r under key: an error of UnmarshalJSON
\* stops the decoding before the entry is set
entered(acc, key, r) ==
    IF r.err # Nil THEN Decoded(acc.v, acc.err, r.err)
    ELSE Decoded(Map((key :> r.doc) @@ acc.v.v), acc.err, Nil)

\* the field of a struct declared by the caller that json.Unmarshal decodes
\* the member key into; fs are its fields <<key, value>>: 0 for none
FieldIndex(fs, key) ==
    IF \E i \in DOMAIN fs : fs[i][1] = key
    THEN CHOOSE i \in DOMAIN fs : fs[i][1] = key
    ELSE IF \E i \in DOMAIN fs : Fold(fs[i][1]) = Fold(key)
         THEN CHOOSE i \in DOMAIN fs :
                 /\ Fold(fs[i][1]) = Fold(key)
                 /\ \A h \in 1..(i - 1) : Fold(fs[h][1]) # Fold(key)
         ELSE 0

\* the JSON value j decoded into a field of a struct declared by the caller,
\* a string or a number, that holds old: null leaves it, a value of another
\* kind is a type error
unmarshalField(old, j) ==
    IF j.k = "jnull" THEN Decoded(old, Nil, Nil)
    ELSE IF old.k = "string" /\ j.k = "jstring" THEN Decoded(String(j.v), Nil, Nil)
    ELSE IF old.k = "int" /\ j.k = "jnumber" THEN Decoded(IntValue(j.v), Nil, Nil)
    ELSE IF old.k = "float64" /\ j.k = "jnumber" THEN Decoded(Float64(j.v), Nil, Nil)
    ELSE Decoded(old, UnmarshalTypeError, Nil)

\* the struct in acc with its field i as r left it; a member that matches no
\* field (i = 0) is skipped
storedAt(acc, i, r) ==
    IF i = 0 THEN acc
    ELSE Decoded([acc.v EXCEPT !.ms[i][2] = r.v], FirstError(acc.err, r.err), acc.abort)

\* the members ms[i], ms[i+1], ... of a JSON object decoded, in the order of
\* the text, into the struct declared by the caller in acc
RECURSIVE unmarshalFields(_, _, _)
unmarshalFields(acc, ms, i) ==
    IF i > Len(ms) THEN acc
    ELSE unmarshalFields(
             storedAt(acc, FieldIndex(acc.v.ms, ms[i][1]),
                      IF FieldIndex(acc.v.ms, ms[i][1]) = 0 THEN Nil
                      ELSE unmarshalField(acc.v.ms[FieldIndex(acc.v.ms, ms[i][1])][2],
                                          ms[i][2])),
             ms, i + 1)

\* the pointer to what r holds
pointerTo(r) == Decoded(Pointer(r.v), r.err, r.abort)

\* an interface holds a non-nil pointer: json.Unmarshal decodes into what it
\* points at rather than setting the interface to a new value
HoldsPointer(old) ==
    old # Nil /\ (old.k = "*LinkObject" \/ (old.k = "pointer" /\ old.to # Nil))

RECURSIVE UnmarshalJSON(_, _)
RECURSIVE unmarshalValue(_, _, _)

\* the members ms[i], ms[i+1], ... of a JSON object decoded, in the order of
\* the text, into the struct of type s in acc; a member that matches no
\* field is skipped
RECURSIVE unmarshalMembers(_, _, _, _)
unmarshalMembers(s, acc, ms, i) ==
    IF i > Len(ms) \/ acc.abort # Nil THEN acc
    ELSE IF FieldFor(StructFields(s), ms[i][1]) = Nil
         THEN unmarshalMembers(s, acc, ms, i + 1)
         ELSE unmarshalMembers(
                  s,
                  stored(acc, FieldFor(StructFields(s), ms[i][1]).name,
                         unmarshalValue(FieldFor(StructFields(s), ms[i][1]).type,
                                        acc.v[FieldFor(StructFields(s), ms[i][1]).name],
                                        ms[i][2])),
                  ms, i + 1)

\* the elements js[i], js[i+1], ... of a JSON array decoded into the elements
\* of the slice old of pointers to s
RECURSIVE unmarshalElements(_, _, _, _, _)
unmarshalElements(s, old, acc, js, i) ==
    IF i > Len(js) \/ acc.abort # Nil THEN acc
    ELSE unmarshalElements(
             s, old,
             appended(acc, unmarshalValue(TPointer(s), ElementOf(old, i), js[i])),
             js, i + 1)

\* the members ms[i], ms[i+1], ... of a JSON object decoded into the
\* map[string]*document in acc: null sets a nil pointer under the key, every
\* other value goes to UnmarshalJSON of a new document
RECURSIVE unmarshalEntries(_, _, _)
unmarshalEntries(acc, ms, i) ==
    IF i > Len(ms) \/ acc.abort # Nil THEN acc
    ELSE unmarshalEntries(
             entered(acc, ms[i][1],
                     IF ms[i][2].k = "jnull" THEN [doc |-> Nil, err |-> Nil]
                     ELSE UnmarshalJSON(ZeroDocument, ms[i][2])),
             ms, i + 1)

\* the JSON value j decoded into the struct the non-nil pointer old points
\* at, a LinkObject or a struct declared by the caller; old is held in an
\* interface and j is not null
unmarshalPointee(old, j) ==
    IF j.k # "jobject" THEN Decoded(old, UnmarshalTypeError, Nil)
    ELSE IF old.k = "*LinkObject"
         THEN unmarshalMembers("LinkObject", Decoded(old, Nil, Nil), j.ms, 1)
         ELSE pointerTo(unmarshalFields(Decoded(old.to, Nil, Nil), j.ms, 1))

\* the JSON value j decoded into a value old of the given type.  A nil
\* pointer is set to a new struct before the kind of j is looked at; an
\* interface is set to a new value, unless it holds a non-nil pointer and j
\* is not null: then j is decoded into what the pointer points at.
unmarshalValue(type, old, j) ==
    CASE type.t = "any" ->
            IF HoldsPointer(old) /\ j.k # "jnull" THEN unmarshalPointee(old, j)
            ELSE Decoded(unmarshalAny(j), Nil, Nil)
      [] type.t = "string" ->
            IF j.k = "jnull" THEN Decoded(old, Nil, Nil)
            ELSE IF j.k = "jstring" THEN Decoded(j.v, Nil, Nil)
            ELSE Decoded(old, UnmarshalTypeError, Nil)
      [] type.t = "pointer" ->
            IF j.k = "jnull" THEN Decoded(Nil, Nil, Nil)
            ELSE IF j.k # "jobject"
                 THEN Decoded(IF old = Nil THEN ZeroOf(type.to) ELSE old,
                              UnmarshalTypeError, Nil)
                 ELSE unmarshalMembers(
                          type.to,
                          Decoded(IF old = Nil THEN ZeroOf(type.to) ELSE old, Nil, Nil),
                          j.ms, 1)
      [] type.t = "slice" ->
            IF j.k = "jnull" THEN Decoded(Nil, Nil, Nil)
            ELSE IF j.k # "jarray" THEN Decoded(old, UnmarshalTypeError, Nil)
            ELSE sliceOf(old, unmarshalElements(type.of, old, Decoded(<<>>, Nil, Nil),
                                                j.v, 1))
      [] type.t = "map[string]any" ->
            IF j.k = "jnull" THEN Decoded(Nil, Nil, Nil)
            ELSE IF j.k # "jobject" THEN Decoded(old, UnmarshalTypeError, Nil)
            ELSE Decoded(Map([n \in DOMAIN j.v |-> unmarshalAny(j.v[n])]
                             @@ (IF old = Nil THEN <<>> ELSE old.v)),
                         Nil, Nil)
      [] type.t = "map[string]*document" ->
            IF j.k = "jnull" THEN Decoded(Nil, Nil, Nil)
            ELSE IF j.k # "jobject" THEN Decoded(old, UnmarshalTypeError, Nil)
            ELSE unmarshalEntries(Decoded(IF old = Nil THEN Map(<<>>) ELSE old, Nil, Nil),
                                  j.ms, 1)

\* the document, the Data and the error of json.Unmarshal, from the aux
\* struct as decoding left it: the error an UnmarshalJSON returned, else the
\* saved type error
auxOf(r) ==
    [doc |-> [hasMany |-> r.v.hasMany, DataOne |-> r.v.DataOne,
              DataMany |-> r.v.DataMany, Meta |-> r.v.Meta, JSONAPI |-> r.v.JSONAPI,
              Errors |-> r.v.Errors, Links |-> r.v.Links, Included |-> r.v.Included],
     Data |-> r.v.Data,
     err |-> FirstError(r.abort, r.err)]

\* the struct with the field Data that embeds the alias of x
auxStruct(x) ==
    [Data |-> Nil, hasMany |-> x.hasMany, DataOne |-> x.DataOne,
     DataMany |-> x.DataMany, Meta |-> x.Meta, JSONAPI |-> x.JSONAPI,
     Errors |-> x.Errors, Links |-> x.Links, Included |-> x.Included]

\* json.Unmarshal of the JSON object j into the struct that embeds the alias
\* of x and has the field Data, a []*resourceObject (many) or a
\* *resourceObject
unmarshalAux(x, j, many) ==
    auxOf(unmarshalMembers(IF many THEN "auxMany" ELSE "auxOne",
                           Decoded(auxStruct(x), Nil, Nil), j.ms, 1))

\* d.hasMany = true
setHasMany(x, isMany) == IF isMany THEN [x EXCEPT !.hasMany = TRUE] ELSE x

\* tryUnmarshalEmpty once data has been decoded into the non-nil map m
sniffData(x, m) ==
    IF LenOf(m) = 0 THEN [doc |-> x, err |-> ErrMissingDataField]
    ELSE IF "data" \notin DOMAIN m.v THEN [doc |-> x, err |-> Nil]
    ELSE IF m.v["data"] # Nil /\ m.v["data"].k = "map" /\ LenOf(m.v["data"]) = 0
         THEN [doc |-> x, err |-> ErrInvalidDataField]
         ELSE [doc |-> setHasMany(x, m.v["data"] # Nil /\ m.v["data"].k = "slice"),
               err |-> Nil]

\* tryUnmarshalEmpty: data is decoded into a map[string]any
tryUnmarshalEmpty(x, data) ==
    IF data.k = "jnull" THEN [doc |-> x, err |-> ErrMissingDataField]
    ELSE IF data.k # "jobject" THEN [doc |-> x, err |-> UnmarshalTypeError]
    ELSE sniffData(x, unmarshalAny(data))

\* UnmarshalJSON after json.Unmarshal(data, &auxOne)
unmarshalOne(auxOne) ==
    IF auxOne.err = Nil
    THEN [doc |-> [auxOne.doc EXCEPT !.DataOne = auxOne.Data], err |-> Nil]
    ELSE [doc |-> auxOne.doc, err |-> auxOne.err]

\* UnmarshalJSON after json.Unmarshal(data, &auxMany): on an error it goes on
\* to auxOne, with what auxMany wrote to the fields of the alias
unmarshalMany(auxMany, data) ==
    IF auxMany.err = Nil
    THEN [doc |-> [auxMany.doc EXCEPT !.DataMany = auxMany.Data], err |-> Nil]
    ELSE unmarshalOne(unmarshalAux(auxMany.doc, data, FALSE))

\* UnmarshalJSON after tryUnmarshalEmpty
unmarshalSniffed(sniffed, data) ==
    IF sniffed.err # Nil THEN sniffed
    ELSE IF sniffed.doc.hasMany
         THEN unmarshalMany(unmarshalAux(sniffed.doc, data, TRUE), data)
         ELSE unmarshalOne(unmarshalAux(sniffed.doc, data, FALSE))

UnmarshalJSON(x, data) == unmarshalSniffed(tryUnmarshalEmpty(x, data), data)

----------------------------------------------------------------------------
(* The documents and payloads the codec is run on *)

\* number of UnmarshalJSON calls followed on one document
MaxDecodes == 2

Resource(type, id) == [ZeroResourceObject EXCEPT !.Type = type, !.ID = id]

OneOf(ro) == [ZeroDocument EXCEPT !.DataOne = ro]
ManyOf(ros) == [ZeroDocument EXCEPT !.hasMany = TRUE, !.DataMany = Slice(ros)]

ResourcePool ==
    { ZeroResourceObject,
      Resource("a", "1"),
      [Resource("a", "1") EXCEPT
          !.Attributes = Map(("title" :> String("t")) @@ ("n" :> Float64(1))),
          !.Meta = Map("x" :> String("y")),
          !.Links = [ZeroLink EXCEPT !.Self = String("/a"), !.Next = "/n"]],
      [Resource("a", "") EXCEPT
          !.Relationships = Map(("r" :> OneOf(Resource("b", "2")))
                                @@ ("s" :> ManyOf(<<Resource("b", "2")>>))
                                @@ ("t" :> Nil))],
      [Resource("a", "1") EXCEPT
          !.Links = [ZeroLink EXCEPT !.Self = LinkObject("/a", Nil)]] }

Documents ==
    [hasMany : BOOLEAN,
     DataOne : {Nil} \cup ResourcePool,
     DataMany : {Nil, Slice(<<>>), Slice(<<Resource("a", "1"), Resource("b", "2")>>)},
     Meta : {Nil, Map("x" :> String("y"))},
     JSONAPI : {Nil, [Version |-> "1.0", Meta |-> Nil]},
     Errors : {Nil, Slice(<<>>), Slice(<<[Title |-> "e"]>>)},
     Links : {Nil, [ZeroLink EXCEPT !.Self = String("/a")]},
     Included : {Nil, Slice(<<>>), Slice(<<Resource("b", "2")>>)}]

JResource(type, id) == JObject(<<<<"type", JString(type)>>, <<"id", JString(id)>>>>)

\* the JSON object with the one member key: value
JOne(key, value) == JObject(<<<<key, value>>>>)

Payloads ==
    { JObject(<<>>),
      JOne("meta", JOne("x", JNumber(1))),
      JOne("errors", JArray(<<JOne("title", JString("e"))>>)),
      JOne("data", JNull),
      JOne("data", JObject(<<>>)),
      JOne("data", JResource("a", "1")),
      JOne("data", JObject(<<<<"type", JString("a")>>,
                             <<"relationships",
                               JOne("r", JOne("data", JResource("b", "2")))>>>>)),
      JOne("data", JArray(<<>>)),
      JObject(<<<<"data", JArray(<<JResource("a", "1"), JResource("b", "2")>>)>>,
                <<"meta", JOne("x", JNumber(1))>>>>),
      \* payloads the typed decoding rejects
      JOne("data", JString("a")),
      JOne("data", JOne("type", JNumber(1))),
      JOne("data", JArray(<<JNumber(1)>>)),
      JOne("data", JObject(<<<<"type", JString("a")>>,
                             <<"relationships",
                               JObject(<<<<"s", JOne("data", JObject(<<>>))>>,
                                         <<"r", JObject(<<>>)>>>>)>>>>)),
      \* keys that are a tag but for the case of their letters
      JOne("Data", JResource("a", "1")),
      JOne("DATA", JArray(<<>>)),
      JOne("data", JObject(<<<<"Type", JString("a")>>, <<"ID", JString("1")>>>>)),
      \* a key repeated: a slice is decoded into, cut, and decoded into again
      JObject(<<<<"included", JArray(<<JResource("b", "2"), JResource("c", "3")>>)>>,
                <<"included", JArray(<<JObject(<<>>)>>)>>,
                <<"included", JArray(<<JObject(<<>>), JOne("id", JString("9"))>>)>>>>),
      JObject(<<<<"included", JArray(<<JResource("b", "2"), JResource("c", "3")>>)>>,
                <<"included", JArray(<<JObject(<<>>)>>)>>>>),
      JOne("included", JArray(<<JObject(<<>>), JOne("id", JString("9"))>>)),
      \* values for interfaces that may hold a pointer
      JObject(<<<<"meta", JOne("Count", JNumber(3))>>,
                <<"links", JOne("self", JObject(<<<<"href", JString("/b")>>,
                                                  <<"meta", JOne("note", JString("n"))>>>>))>>>>),
      JObject(<<<<"meta", JOne("count", JString("x"))>>,
                <<"jsonapi", JOne("meta", JOne("count", JNumber(3)))>>,
                <<"links", JObject(<<<<"self", JString("/c")>>,
                                     <<"related", JNull>>>>)>>>>) }

\* a struct the caller declared, for meta
MetaStruct(n) == Struct("main.Meta", <<<<"count", IntValue(n)>>, <<"note", String("")>>>>)

\* documents the caller has filled and decodes into: their interfaces hold
\* pointers
Filled ==
    { [ZeroDocument EXCEPT
          !.Meta = Pointer(MetaStruct(2)),
          !.Links = [ZeroLink EXCEPT
                        !.Self = LinkObject("/a", Pointer(MetaStruct(2))),
                        !.Related = LinkObject("/r", Nil)]],
      [ZeroDocument EXCEPT
          !.Meta = Pointer(Nil),
          !.JSONAPI = [Version |-> "1.0", Meta |-> MetaStruct(2)]] }

CodecIdle ==
    /\ document = Nil /\ role = "idle" /\ wire = Nil /\ src = Nil /\ payload = Nil
    /\ err = Nil /\ decodes = 0 /\ allOk = TRUE

CodecInit ==
    /\ document \in Documents
    /\ role = "built"
    /\ wire = Nil
    /\ src = Nil
    /\ payload = Nil
    /\ err = Nil
    /\ decodes = 0
    /\ allOk = TRUE

\* json.Marshal(document) of a document the caller built
Encode ==
    /\ role = "built"
    /\ wire = Nil
    /\ wire' = MarshalJSON(document)
    /\ src' = document
    /\ UNCHANGED <<document, role, payload, err, decodes, allOk>>

\* a new document to decode into: var d document, or newDocument()
Fresh ==
    /\ role = "built"
    /\ document' \in {ZeroDocument, newDocument}
    /\ role' = "target"
    /\ UNCHANGED <<wire, src, payload, err, decodes, allOk>>

\* a document the caller has filled, to decode into
Reuse ==
    /\ role = "built"
    /\ wire = Nil
    /\ document' \in Filled
    /\ role' = "reused"
    /\ UNCHANGED <<wire, src, payload, err, decodes, allOk>>

\* json.Unmarshal(data, document): of what Encode returned into the new
\* document, or of payloads, one after the other into the same document
Decode ==
    /\ role \in {"target", "reused"}
    /\ decodes < MaxDecodes
    /\ wire # Nil => decodes = 0
    /\ \E data \in IF wire = Nil THEN Payloads ELSE {wire} :
          LET r == UnmarshalJSON(document, data)
          IN /\ document' = r.doc
             /\ err' = r.err
             /\ payload' = data
             /\ allOk' = (allOk /\ r.err = Nil)
    /\ decodes' = decodes + 1
    /\ UNCHANGED <<role, wire, src>>

----------------------------------------------------------------------------
(* Bounds of the linkage model *)

MaxIncluded == 3

RelNames == {"r", "s"}

----------------------------------------------------------------------------
(* document.verifyFullLinkage *)

\* a nil map ranges over nothing
MapOf(m) == IF m = Nil THEN <<>> ELSE m.v

getResourceObjectSlice(doc) ==
    IF doc.hasMany THEN doc.DataMany
    ELSE IF doc.DataOne = Nil THEN <<>>
    ELSE <<doc.DataOne>>

resourceIdentifier(ro) == "{Type: " \o ro.Type \o ", ID: " \o ro.ID \o "}"

\* what a run-time panic leaves in place of a returned error: a nil pointer
\* was dereferenced
Panic == [k |-> "panic"]

\* in a sequence of pointers to go through: the place where going on
\* dereferences a nil pointer (d.hasMany of a nil relationship document,
\* data.Relationships of a nil element of the primary data)
NilDereference == [k |-> "nil dereference"]

\* the resource objects the relationships of ro point at, the relationships
\* taken in the order ord (one of the orders of the map's range);
\* getResourceObjectSlice of a nil relationship document dereferences it
relatedToOf(ro, ord) ==
    Flatten([i \in 1..Len(ord) |->
                IF MapOf(ro.Relationships)[ord[i]] = Nil THEN <<NilDereference>>
                ELSE getResourceObjectSlice(MapOf(ro.Relationships)[ord[i]])])

\* the Relationships of the resource at p; a nil p has none to range over
RelationshipsAt(h, p) == IF p = Nil THEN Nil ELSE h[p].Relationships

\* the orders in which the Relationships of the resources at ptrs may be ranged
IterationOrders(h, ptrs) ==
    {o \in [DOMAIN ptrs -> UNION {Perms(S) : S \in SUBSET RelNames}] :
        \A i \in DOMAIN ptrs :
            o[i] \in Perms(DOMAIN MapOf(RelationshipsAt(h, ptrs[i])))}

\* building the include graph dereferences a nil pointer: included is nil
\* (included.Relationships) or one of its relationship documents is
\* (d.hasMany in getResourceObjectSlice)
buildPanics(h, included) ==
    \E i \in DOMAIN included :
        \/ included[i] = Nil
        \/ \E n \in DOMAIN MapOf(h[included[i]].Relationships) :
              MapOf(h[included[i]].Relationships)[n] = Nil

\* includeGraph[key] = node
setIncludeNode(g, key, node) ==
    [id \in DOMAIN g \cup {key} |-> IF id = key THEN node ELSE g[id]]

\* the include graph after the first n iterations of the loop over d.Included
RECURSIVE buildIncludeGraph(_, _, _, _)
buildIncludeGraph(h, included, ord, n) ==
    IF n = 0 THEN <<>>
    ELSE LET inc == included[n]
             node == [included |-> inc,
                      relatedTo |-> relatedToOf(h[inc], ord[n]),
                      visited |-> FALSE]
         IN setIncludeNode(buildIncludeGraph(h, included, ord, n - 1),
                           resourceIdentifier(h[inc]), node)

\* the calls of visit made by the loop over the primary data, in order
primaryVisits(h, doc, ord) ==
    LET primaryData == getResourceObjectSlice(doc)
    IN Flatten([i \in 1..Len(primaryData) |->
                   IF primaryData[i] = Nil THEN <<NilDereference>>
                   ELSE relatedToOf(h[primaryData[i]], ord[i])])

\* if aliasRelationships { *ro = *node.included }
aliasPlaceholder(h, ro, node, alias) ==
    IF alias THEN [h EXCEPT ![ro] = h[node.included]] ELSE h

adjacentEvenIfVisited(node) == node.relatedTo

\* the nodes visit goes on to: none when the node was visited before
adjacentToVisit(node) == IF node.visited THEN <<>> ELSE node.relatedTo

\* the identifiers of the include nodes never visited
invalidResources(g) == {id \in DOMAIN g : ~g[id].visited}

\* calls of visit the model follows before it stops counting
VisitCap(h, doc) ==
    LET inc == doc.Included
        prim == getResourceObjectSlice(doc)
        targets(p) ==
            SumOver([n \in DOMAIN MapOf(RelationshipsAt(h, p)) |->
                        IF h[p].Relationships.v[n] = Nil THEN 0
                        ELSE Len(getResourceObjectSlice(h[p].Relationships.v[n]))],
                    DOMAIN MapOf(RelationshipsAt(h, p)))
    IN SumOver([i \in DOMAIN prim |-> targets(prim[i])], DOMAIN prim)
       + SumOver([i \in DOMAIN inc |-> targets(inc[i])], DOMAIN inc)

\* verifyFullLinkage up to the first call of visit
Start ==
    /\ pc = "start"
    /\ IF Len(d.Included) = 0
       THEN /\ pc' = "done"
            /\ result' = Nil
            /\ UNCHANGED <<includeGraph, stack>>
       ELSE IF buildPanics(heap, d.Included)
       THEN /\ pc' = "done"
            /\ result' = Panic
            /\ UNCHANGED <<includeGraph, stack>>
       ELSE \E ordI \in IterationOrders(heap, d.Included),
               ordP \in IterationOrders(heap, getResourceObjectSlice(d)) :
                /\ includeGraph' = buildIncludeGraph(heap, d.Included, ordI,
                                                     Len(d.Included))
                /\ stack' = primaryVisits(heap, d, ordP)
                /\ pc' = "visit"
                /\ UNCHANGED result
    /\ UNCHANGED <<d, heap, aliasRelationships, visits, reached, expansions, heap0>>

\* visit(ro) of a resource object: the calls it makes are pushed on the stack
visitObject(ro) ==
    LET key == resourceIdentifier(heap[ro])
    IN /\ IF key \notin DOMAIN includeGraph
          THEN /\ stack' = Tail(stack)
               /\ UNCHANGED <<heap, includeGraph, expansions>>
          ELSE LET node == includeGraph[key]
               IN /\ heap' = aliasPlaceholder(heap, ro, node, aliasRelationships)
                  /\ includeGraph' = [includeGraph EXCEPT ![key].visited = TRUE]
                  /\ stack' = adjacentToVisit(node) \o Tail(stack)
                  /\ expansions' = IF adjacentToVisit(node) # <<>>
                                   THEN Append(expansions, key)
                                   ELSE expansions
       /\ reached' = reached \cup {ro}
       /\ visits' = visits + 1
       /\ UNCHANGED <<pc, result>>

\* the next step of the traversal: the loop over the primary data
\* dereferences a nil pointer, or visit is called: visit(nil) dereferences ro
\* in resourceIdentifier, visit of a resource object goes on
Visit ==
    /\ pc = "visit"
    /\ stack # <<>>
    /\ visits <= VisitCap(heap0, d)
    /\ IF Head(stack) = NilDereference
       THEN /\ pc' = "done"
            /\ result' = Panic
            /\ UNCHANGED <<heap, includeGraph, stack, expansions, reached, visits>>
       ELSE IF Head(stack) = Nil
       THEN /\ pc' = "done"
            /\ result' = Panic
            /\ visits' = visits + 1
            /\ UNCHANGED <<heap, includeGraph, stack, expansions, reached>>
       ELSE visitObject(Head(stack))
    /\ UNCHANGED <<d, aliasRelationships, heap0>>

\* verifyFullLinkage after the traversal: the identifiers of the unvisited nodes,
\* in the order the range over the map delivers them
Collect ==
    /\ pc = "visit"
    /\ stack = <<>>
    /\ \E ids \in Perms(invalidResources(includeGraph)) :
          result' = IF Len(ids) > 0
                    THEN [k |-> "PartialLinkageError", ids |-> ids]
                    ELSE Nil
    /\ pc' = "done"
    /\ UNCHANGED <<d, heap, aliasRelationships, includeGraph, stack, visits,
                   reached, expansions, heap0>>

----------------------------------------------------------------------------
(* The documents verifyFullLinkage is called on.  A document is laid out   *)
(* from a blueprint: every primary and included resource and every         *)
(* relationship placeholder is an object of its own (as the decoder and    *)
(* the marshaller allocate them), at the address of its place in the       *)
(* document.                                                               *)

Ref(type, id) == [Type |-> type, ID |-> id]
RefA == Ref("a", "1")
RefB == Ref("b", "2")
RefC == Ref("c", "3")
RefX == Ref("x", "9")    \* never among the included resources
\* two identities with one identifier, "{Type: a, ID: 1, ID: 2}"
RefD == Ref("a", "1, ID: 2")
RefE == Ref("a, ID: 1", "2")

ToOne(ref) == [hasMany |-> FALSE, one |-> <<ref>>, many |-> <<>>]
ToNone == [hasMany |-> FALSE, one |-> <<>>, many |-> <<>>]
ToMany(refs) == [hasMany |-> TRUE, one |-> <<>>, many |-> refs]

Blueprint(ref, rels) == [Type |-> ref.Type, ID |-> ref.ID, rels |-> rels]

IncludedPool ==
    { Blueprint(RefA, <<>>),
      Blueprint(RefA, "r" :> ToOne(RefB)),
      Blueprint(RefA, "r" :> ToMany(<<RefB, RefC>>)),
      Blueprint(RefB, <<>>),
      Blueprint(RefB, "r" :> ToOne(RefA)),
      Blueprint(RefB, ("r" :> ToOne(RefC)) @@ ("s" :> ToOne(RefX))),
      Blueprint(RefC, "r" :> ToNone),
      Blueprint(RefC, "r" :> ToOne(RefC)),
      \* DataOne set but hasMany true: DataOne is not primary data
      Blueprint(RefC, "r" :> [hasMany |-> TRUE, one |-> <<RefA>>, many |-> <<>>]),
      \* what the decoder leaves for JSON null: a nil element of included, a
      \* nil relationship document, a nil element of a relationship's data
      Nil,
      Blueprint(RefB, "r" :> Nil),
      Blueprint(RefC, "r" :> ToMany(<<RefA, Nil>>)),
      Blueprint(RefD, <<>>),
      Blueprint(RefE, <<>>) }

PrimaryPool ==
    { [hasMany |-> FALSE, data |-> <<>>],
      [hasMany |-> TRUE, data |-> <<>>],
      [hasMany |-> FALSE, data |-> <<Blueprint(Ref("p", "0"), <<>>)>>],
      [hasMany |-> FALSE, data |-> <<Blueprint(Ref("p", "0"), "r" :> ToOne(RefA))>>],
      [hasMany |-> FALSE,
       data |-> <<Blueprint(Ref("p", "0"), "r" :> ToMany(<<RefC, RefA>>))>>],
      [hasMany |-> TRUE,
       data |-> <<Blueprint(Ref("p", "0"), "r" :> ToOne(RefA)),
                  Blueprint(Ref("q", "0"),
                            ("r" :> ToOne(RefB)) @@ ("s" :> ToOne(RefX)))>>],
      [hasMany |-> FALSE, data |-> <<Blueprint(Ref("p", "0"), "r" :> ToOne(RefD))>>],
      \* nil pointers in the primary data
      [hasMany |-> FALSE,
       data |-> <<Blueprint(Ref("p", "0"), ("r" :> ToOne(RefA)) @@ ("s" :> Nil))>>],
      [hasMany |-> TRUE,
       data |-> <<Blueprint(Ref("p", "0"), "r" :> ToOne(RefA)), Nil>>] }

\* a non-nil pointer to a resource object: the place of the object in the document
Ptr(place) == [k |-> "ptr", at |-> place]

\* the pointer to the object at place laid out for the blueprint or
\* reference b: nil for a nil one
PtrTo(b, place) == IF b = Nil THEN Nil ELSE Ptr(place)

\* the addresses of the objects of a document laid out from blueprints
Addresses(prim, incl) ==
    LET at(where, bs) ==
            UNION {{Ptr(<<where, i>>)}
                      \cup UNION {{Ptr(<<where, i, n, j>>) :
                                        j \in {h \in 1..Len(bs[i].rels[n].many) :
                                                  bs[i].rels[n].many[h] # Nil}}
                                      \cup {Ptr(<<where, i, n, 0>>) : j \in 1..Len(bs[i].rels[n].one)}
                                  : n \in {m \in DOMAIN bs[i].rels : bs[i].rels[m] # Nil}}
                   : i \in {h \in DOMAIN bs : bs[h] # Nil}}
    IN at("data", prim.data) \cup at("included", incl)

\* the resource object at address a
ObjectAt(prim, incl, a) ==
    LET at == a.at
        b == IF at[1] = "data" THEN prim.data[at[2]] ELSE incl[at[2]]
    IN IF Len(at) = 2
       THEN [ID |-> b.ID, Type |-> b.Type,
             Attributes |-> [k |-> "map", v |-> ("at" :> a)],
             Relationships |->
                 IF DOMAIN b.rels = {} THEN Nil
                 ELSE [k |-> "map",
                       v |-> [n \in DOMAIN b.rels |->
                                 IF b.rels[n] = Nil THEN Nil
                                 ELSE [hasMany |-> b.rels[n].hasMany,
                                       DataOne |-> IF b.rels[n].one = <<>> THEN Nil
                                                   ELSE Ptr(<<at[1], at[2], n, 0>>),
                                       DataMany |->
                                           [j \in 1..Len(b.rels[n].many) |->
                                               PtrTo(b.rels[n].many[j],
                                                     <<at[1], at[2], n, j>>)]]]],
             Meta |-> Nil, Links |-> Nil]
       ELSE LET ref == IF at[4] = 0 THEN b.rels[at[3]].one[1]
                       ELSE b.rels[at[3]].many[at[4]]
            IN [ID |-> ref.ID, Type |-> ref.Type, Attributes |-> Nil,
                Relationships |-> Nil, Meta |-> Nil, Links |-> Nil]

LinkageInit ==
    \E n \in 0..MaxIncluded :
      \E incl \in [1..n -> IncludedPool], prim \in PrimaryPool :
        /\ heap = [a \in Addresses(prim, incl) |-> ObjectAt(prim, incl, a)]
        /\ d = [hasMany |-> prim.hasMany,
                DataOne |-> IF ~prim.hasMany /\ prim.data # <<>>
                            THEN Ptr(<<"data", 1>>) ELSE Nil,
                DataMany |-> IF prim.hasMany
                             THEN [i \in 1..Len(prim.data) |->
                                      PtrTo(prim.data[i], <<"data", i>>)]
                             ELSE <<>>,
                Included |-> [i \in 1..n |-> PtrTo(incl[i], <<"included", i>>)]]
        /\ aliasRelationships \in BOOLEAN
        /\ pc = "start"
        /\ includeGraph = <<>>
        /\ stack = <<>>
        /\ result = Nil
        /\ visits = 0
        /\ reached = {}
        /\ expansions = <<>>
        /\ heap0 = heap

LinkageIdle ==
    /\ d = Nil /\ heap = <<>> /\ aliasRelationships = FALSE /\ pc = "idle"
    /\ includeGraph = <<>> /\ stack = <<>> /\ result = Nil /\ visits = 0
    /\ reached = {} /\ expansions = <<>> /\ heap0 = <<>>

----------------------------------------------------------------------------
(* Specifications: one per component, the other components idle *)

InitLinkage == LinkageInit /\ LinkIdle /\ CodecIdle

NextLinkage == (Start \/ Visit \/ Collect) /\ UNCHANGED <<linkVars, codecVars>>

SpecLinkage == InitLinkage /\ [][NextLinkage]_vars

InitLink == LinkInit /\ LinkageIdle /\ CodecIdle

NextLink == (Check \/ MarshalLink) /\ UNCHANGED <<linkageVars, codecVars>>

SpecLink == InitLink /\ [][NextLink]_vars

InitCodec == CodecInit /\ LinkageIdle /\ LinkIdle

NextCodec == (Encode \/ Fresh \/ Reuse \/ Decode) /\ UNCHANGED <<linkageVars, linkVars>>

SpecCodec == InitCodec /\ [][NextCodec]_vars

----------------------------------------------------------------------------
(* Full linkage, stated on the document as it was when verifyFullLinkage   *)
(* was called (heap0), independently of the traversal.                     *)

Identity(ro) == <<ro.Type, ro.ID>>

FormatIdentity(i) == "{Type: " \o i[1] \o ", ID: " \o i[2] \o "}"

\* the resources of the document: its non-nil pointers
IncludedResources == Range(d.Included) \ {Nil}
PrimaryResources == Range(getResourceObjectSlice(d)) \ {Nil}

\* the relationship placeholders of the resource at address p
PlaceholdersOf(h, p) ==
    UNION {Range(getResourceObjectSlice(doc)) \ {Nil} :
             doc \in Range(MapOf(h[p].Relationships)) \ {Nil}}

TargetsOf(h, p) == {Identity(h[q]) : q \in PlaceholdersOf(h, p)}

IncludedIdentities == {Identity(heap0[p]) : p \in IncludedResources}

PrimaryTargets == UNION {TargetsOf(heap0, p) : p \in PrimaryResources}

\* relationship edges of every included resource
EdgesOfEach ==
    UNION {{<<Identity(heap0[p]), t>> : t \in TargetsOf(heap0, p)} :
             p \in IncludedResources}

RECURSIVE Closure(_, _)
Closure(R, E) ==
    LET R2 == R \cup {e[2] : e \in {f \in E : f[1] \in R /\ f[1] \in IncludedIdentities}}
    IN IF R2 = R THEN R ELSE Closure(R2, E)

\* the reachable identities: the relationship targets of the primary data
\* and of the included resources with a reachable identity
Reachable == Closure(PrimaryTargets, EdgesOfEach)

\* verifyFullLinkage is over, on a document with non-empty included
Returned == pc = "done" /\ Len(d.Included) > 0

\* the verdict of verifyFullLinkage is the one the reachable set R calls for
VerdictFor(R) ==
    LET orphans == IncludedIdentities \ R
    IN /\ (result = Nil) <=> (orphans = {})
       /\ result # Nil =>
            /\ result.k = "PartialLinkageError"
            /\ Range(result.ids) = {FormatIdentity(i) : i \in orphans}
            /\ Len(result.ids) = Cardinality(orphans)

\* C1 as stated: for every document with non-empty included and every
\* iteration order, verifyFullLinkage succeeds iff every included identity
\* (type, id) is reachable, an identity being reachable iff it is a
\* relationship target of a primary-data resource or of a reachable included
\* resource, and otherwise fails with a PartialLinkageError holding exactly
\* the included identities that are not reachable.
C1_Original == Returned => VerdictFor(Reachable)

\* the bound of C2: the primary relationship targets plus all relationship
\* targets of included resources
VisitBound == VisitCap(heap0, d)

\* C2: verifyFullLinkage terminates, cycles included: the adjacent nodes of
\* an include node are gone on to at most once, and the calls of visit never
\* exceed the number of primary relationship targets plus the number of
\* relationship targets of included resources (so the traversal always runs
\* to its end and returns).
C2_BoundedVisits ==
    /\ visits <= VisitBound
    /\ \A i, j \in DOMAIN expansions : expansions[i] = expansions[j] => i = j
    /\ pc = "visit" /\ stack # <<>> => ENABLED Visit

\* two included resources referring to each other, both visited, traversal over
C2_Witness ==
    /\ pc = "done"
    /\ result # Panic
    /\ \E p, q \in IncludedResources :
          /\ Identity(heap0[p]) # Identity(heap0[q])
          /\ Identity(heap0[q]) \in TargetsOf(heap0, p)
          /\ Identity(heap0[p]) \in TargetsOf(heap0, q)
          /\ resourceIdentifier(heap0[p]) \in Range(expansions)
          /\ resourceIdentifier(heap0[q]) \in Range(expansions)
          /\ includeGraph[resourceIdentifier(heap0[p])].included = p
          /\ includeGraph[resourceIdentifier(heap0[q])].included = q

\* the placeholders the claim has the traversal reach: the relationship
\* targets of the primary data and of the included resources with a
\* reachable identity
ReachedPlaceholders ==
    UNION {PlaceholdersOf(heap0, p) : p \in PrimaryResources}
    \cup UNION {PlaceholdersOf(heap0, p) :
                  p \in {q \in IncludedResources : Identity(heap0[q]) \in Reachable}}

\* C3 as stated: with aliasRelationships = true, when verifyFullLinkage
\* returns (nil or a PartialLinkageError), every relationship placeholder of
\* the primary data and of the reachable included resources whose identity
\* matches an included resource holds a copy of all fields of an included
\* resource of that identity.
C3_Original ==
    Returned /\ aliasRelationships /\ result # Panic =>
        \A ro \in ReachedPlaceholders :
            Identity(heap0[ro]) \in IncludedIdentities =>
                \E p \in IncludedResources :
                    /\ Identity(heap0[p]) = Identity(heap0[ro])
                    /\ heap[ro] = heap[p]

----------------------------------------------------------------------------
(* Link validation *)

\* self/related is empty: absent, "", or a LinkObject with href ""
IsEmptyLinkValue(x) ==
    \/ x = Nil
    \/ x.k = "string" /\ x.v = ""
    \/ x.k = "*LinkObject" /\ x.Href = ""

\* a string, a LinkObject with valid meta, or absent
IsValidLinkValue(x) ==
    \/ x = Nil
    \/ x.k = "string"
    \/ x.k = "*LinkObject" /\ (x.Meta = Nil \/ derefType(x.Meta).k \in {"struct", "map"})

\* C8: for a Link whose self and related are each a string, a LinkObject with
\* valid meta, or absent: check fails with MissingLinkFields iff both are
\* empty, and fails in no other way; after a successful check an empty
\* self/related has been set to absent, a non-empty one is as it was, no
\* other field has changed, and the encoding has no empty self or related.
C8_LinkCheck ==
    linkPc \in {"checked", "encoded"}
      /\ IsValidLinkValue(link0.Self) /\ IsValidLinkValue(link0.Related) =>
        /\ (linkErr = ErrMissingLinkFields)
              <=> (IsEmptyLinkValue(link0.Self) /\ IsEmptyLinkValue(link0.Related))
        /\ linkErr \in {Nil, ErrMissingLinkFields}
        /\ linkErr = Nil =>
              /\ link.Self = IF IsEmptyLinkValue(link0.Self) THEN Nil ELSE link0.Self
              /\ link.Related = IF IsEmptyLinkValue(link0.Related) THEN Nil
                                ELSE link0.Related
              /\ [link EXCEPT !.Self = Nil, !.Related = Nil]
                    = [link0 EXCEPT !.Self = Nil, !.Related = Nil]
        /\ linkPc = "encoded" =>
              /\ ("self" \in DOMAIN linkWire.v) <=> ~IsEmptyLinkValue(link0.Self)
              /\ ("related" \in DOMAIN linkWire.v) <=> ~IsEmptyLinkValue(link0.Related)

\* Link{Self: "/a", Related: ""} (or a LinkObject without href) checked and
\* encoded without a related key
C8_Witness ==
    /\ linkPc = "encoded"
    /\ link0.Self = String("/a")
    /\ link0.Related \in {String(""), LinkObject("", Nil)}
    /\ link.Related = Nil
    /\ DOMAIN linkWire.v = {"self"}

----------------------------------------------------------------------------
(* The codec *)

\* the "data" member of an encoded document, if any
DataOf(w) == IF "data" \in DOMAIN w.v THEN w.v["data"] ELSE [k |-> "absent"]

\* C4: a document with non-empty errors is encoded without a "data" key,
\* whatever hasMany, DataOne and DataMany hold, and with each of meta, jsonapi,
\* errors, links, included present iff its field is non-empty.
C4_ErrorsExcludeData ==
    wire # Nil /\ LenOf(src.Errors) > 0 =>
        /\ "data" \notin DOMAIN wire.v
        /\ DOMAIN wire.v =
              {"errors"}
              \cup (IF src.Meta # Nil THEN {"meta"} ELSE {})
              \cup (IF src.JSONAPI # Nil THEN {"jsonapi"} ELSE {})
              \cup (IF src.Links # Nil THEN {"links"} ELSE {})
              \cup (IF LenOf(src.Included) > 0 THEN {"included"} ELSE {})
        /\ wire.v["errors"].k = "jarray"
        /\ Len(wire.v["errors"].v) = LenOf(src.Errors)

\* errors and primary data of both shapes set, meta set: encoded without data
C4_Witness ==
    /\ wire # Nil
    /\ LenOf(src.Errors) > 0
    /\ src.hasMany /\ LenOf(src.DataMany) > 0 /\ src.DataOne # Nil
    /\ DOMAIN wire.v = {"errors", "meta"}

\* the state after wire, encoded from src, was decoded into a new document
RoundTripped == role = "target" /\ wire # Nil /\ decodes = 1

\* C5 as stated: a document without errors, of shape Many, with no resource
\* in DataMany (an empty slice or nil) is encoded with "data" a sequence, and
\* decoding that yields shape Many with an empty DataMany.
C5_Original ==
    wire # Nil /\ LenOf(src.Errors) = 0 /\ src.hasMany /\ LenOf(src.DataMany) = 0 =>
        /\ DataOf(wire).k = "jarray"
        /\ RoundTripped =>
              /\ err = Nil
              /\ document.hasMany
              /\ LenOf(document.DataMany) = 0

\* C6 as stated: a document without errors, of shape One with DataOne set,
\* encoded and decoded into a new document, yields shape One and a DataOne
\* equal to the original in all its fields.
C6_Original ==
    RoundTripped /\ LenOf(src.Errors) = 0 /\ ~src.hasMany /\ src.DataOne # Nil =>
        /\ err = Nil
        /\ ~document.hasMany
        /\ LenOf(document.DataMany) = 0
        /\ document.DataOne = src.DataOne

\* the state after one payload was decoded into a new document
DecodedOnce == role = "target" /\ decodes = 1

NoShape == ~document.hasMany /\ document.DataOne = Nil

\* the shape a successful decoding leaves, by the "data" member of the payload
ShapeOf(data) ==
    CASE data.k \in {"absent", "jnull"} -> err = Nil /\ NoShape
      [] data.k = "jobject" -> err = Nil /\ ~document.hasMany /\ document.DataOne # Nil
      [] data.k = "jarray" ->
            /\ err = Nil
            /\ document.hasMany
            /\ LenOf(document.DataMany) = Len(data.v)
      [] OTHER -> FALSE

\* C7 as stated: the "data" key alone decides: a non-empty object succeeds
\* with shape One, a sequence succeeds with shape Many, absent or null
\* succeeds with shape None.
C7_Original ==
    DecodedOnce =>
        LET data == DataOf(payload)
        IN IF DOMAIN payload.v = {} THEN err = ErrMissingDataField /\ NoShape
           ELSE IF data.k = "jobject" /\ DOMAIN data.v = {}
                THEN err = ErrInvalidDataField /\ NoShape
                ELSE data.k \in {"absent", "jnull", "jobject", "jarray"} => ShapeOf(data)

\* C10 as stated: after successful decodings only, into one document, the
\* shape flag is Many iff the last payload's "data" is a sequence, DataOne is
\* set iff it is a non-empty object, DataMany is empty when it is not a
\* sequence, and MarshalJSON gives the "data" it gives for a new document the
\* last payload was decoded into.
C10_Original ==
    role = "target" /\ decodes >= 1 /\ allOk =>
        LET data == DataOf(payload)
            fresh == UnmarshalJSON(ZeroDocument, payload).doc
        IN /\ document.hasMany = (data.k = "jarray")
           /\ (document.DataOne # Nil) = (data.k = "jobject" /\ DOMAIN data.v # {})
           /\ data.k # "jarray" => LenOf(document.DataMany) = 0
           /\ DataOf(MarshalJSON(document)) = DataOf(MarshalJSON(fresh))

====
